---- MODULE Spec2Model ----
(***************************************************************************)
(* Discrete-time binary threshold network of q1.py: the baseline stepper   *)
(* (steps / simulate_N), the fast stepper (build_out_edges / step_fast /   *)
(* simulate_fast) and the harness that runs both on deep copies of one     *)
(* parsed case (verify_stdin).                                             *)
(*                                                                         *)
(* Index convention: Python lists are 0-based, TLA+ sequences 1-based.     *)
(* The Python expression neurons[a-1] is ns[a] here; the 0-based keys and  *)
(* destinations of out_edges are kept 0-based, as build_out_edges stores   *)
(* them, so received[v] of step_fast is received[v + 1] here.              *)
(***************************************************************************)
EXTENDS Integers, Sequences, FiniteSets, TLC

(***************************************************************************)
(* Python float arithmetic (IEEE-754 binary64, round to nearest, ties to   *)
(* even).  A value is sign and magnitude, the magnitude an exact integer   *)
(* count of units of 2^-56 held in two 30-bit limbs (hi * 2^30 + lo).      *)
(* Every binary64 number of magnitude in [2^-4, 16) is such a multiple,    *)
(* and so is every sum or difference of two of them; on these operands     *)
(* FAdd is the binary64 addition: the exact sum rounded to 53 significant  *)
(* bits.  0.0 and -0.0 compare equal in Python and are one value here.     *)
(***************************************************************************)
LIMB == 1073741824

MANT_DIG == 53

RECURSIVE BitLen(_)
BitLen(n) == IF n = 0 THEN 0 ELSE 1 + BitLen(n \div 2)

MagLen(hi, lo) == IF hi > 0 THEN 30 + BitLen(hi) ELSE BitLen(lo)

Mk(neg, hi, lo) == [neg |-> (neg /\ (hi > 0 \/ lo > 0)), hi |-> hi, lo |-> lo]

\* the exact magnitude hi:lo rounded to MANT_DIG significant bits
Round53(neg, hi, lo) ==
    LET len == MagLen(hi, lo)
    IN  IF len <= MANT_DIG THEN Mk(neg, hi, lo)
        ELSE LET q    == 2 ^ (len - MANT_DIG)
                 rem  == lo % q
                 base == lo - rem
                 odd  == (lo \div q) % 2 = 1
                 up   == (2 * rem > q) \/ (2 * rem = q /\ odd)
                 lo2  == IF up THEN base + q ELSE base
             IN  Mk(neg, hi + (lo2 \div LIMB), lo2 % LIMB)

MagLess(x, y) == x.hi < y.hi \/ (x.hi = y.hi /\ x.lo < y.lo)

\* x + y, magnitudes added
AddMag(neg, x, y) ==
    LET lo == x.lo + y.lo
    IN  Round53(neg, x.hi + y.hi + (lo \div LIMB), lo % LIMB)

\* x - y for |x| >= |y|, magnitudes subtracted
SubMag(neg, x, y) ==
    LET borrow == IF x.lo < y.lo THEN 1 ELSE 0
    IN  Round53(neg, x.hi - y.hi - borrow, x.lo + borrow * LIMB - y.lo)

\* Python's x + y on floats
FAdd(x, y) ==
    IF x.neg = y.neg THEN AddMag(x.neg, x, y)
    ELSE IF MagLess(x, y) THEN SubMag(y.neg, y, x)
    ELSE SubMag(x.neg, x, y)

\* Python's x < y and x >= y on floats
FLess(x, y) ==
    IF x.neg /\ ~y.neg THEN TRUE
    ELSE IF ~x.neg /\ y.neg THEN FALSE
    ELSE IF x.neg THEN MagLess(y, x)
    ELSE MagLess(x, y)

FGe(x, y) == ~FLess(x, y)

\* float literals of the source and of the cases: the binary64 nearest to
\* the decimal, in units of 2^-56
F0_0  == Mk(FALSE, 0, 0)
F0_1  == Mk(FALSE, 6710886, 429496730)
F0_2  == Mk(FALSE, 13421772, 858993460)
F0_3  == Mk(FALSE, 20132659, 214748364)
F0_4  == Mk(FALSE, 26843545, 644245096)
F0_5  == Mk(FALSE, 33554432, 0)
F0_6  == Mk(FALSE, 40265318, 429496728)
F0_8  == Mk(FALSE, 53687091, 214748368)
F1_0  == Mk(FALSE, 67108864, 0)
FNeg0_1 == Mk(TRUE, 6710886, 429496730)

(***************************************************************************)
(* Bounds of the checked cases.  The cases of Spec have one or two         *)
(* neurons, at most MaxEdges edges, at most MaxN ticks and a snapshot      *)
(* interval of at most MaxEvery ticks.                                     *)
(***************************************************************************)
NeuronCounts == {1, 2}

MaxEdges == 2

MaxN == 2

MaxEvery == 2

None == << >>

\* weights and thresholds of the checked cases (any float is a valid one)
Weights == {F0_6, FNeg0_1}

Thresholds == {F0_0, F0_5}

(***************************************************************************)
(* State.  The program's lists of neuron dicts are heap objects: a         *)
(* variable of the program holds a reference, and two variables holding    *)
(* the same reference see each other's writes.                             *)
(***************************************************************************)
VARIABLES
    heap,          \* reference -> list of neuron dicts (<< >>: not allocated)
    neurons,       \* verify_stdin: the parsed case (a reference)
    neurons_base,  \* verify_stdin: the copy simulate_N runs on
    neurons_fast,  \* verify_stdin: the copy simulate_fast runs on
    connections,   \* the parsed edge list, tuples (a, b, w), 1-based a and b
    N,             \* the step count
    debug_every,   \* the snapshot interval <<k>>, None when disabled
    out_edges,     \* simulate_fast: the result of build_out_edges
    t,             \* the loop variable of the running driver (0: no tick yet)
    received,      \* the accumulator of the last tick
    base_out,      \* verify_stdin: what simulate_N returned
    fast_out,      \* verify_stdin: what simulate_fast returned
    match,         \* verify_stdin: the printed MATCH flag
    stdout,        \* the STEP lines printed so far, as <<t, vector>>
    quiet,         \* the same two runs with debug_every = None, in lockstep
    pc,            \* position in verify_stdin
    phase,         \* position in the running stepper ("idle": not in a call)
    idx,           \* the stepper's loop index, 1-based
    new_states,    \* the stepper's new_states list
    tick_start     \* the state vector the running call started from

vars == <<heap, neurons, neurons_base, neurons_fast, connections, N,
          debug_every, out_edges, t, received, base_out, fast_out, match,
          stdout, quiet, pc, phase, idx, new_states, tick_start>>

\* the locals of a stepper call in progress
locals == <<phase, idx, new_states, tick_start>>

Refs == 1..3

NoRef == 0

\* [n["state"] for n in neurons]
States(ns) == [i \in 1..Len(ns) |-> ns[i].state]

\* [0.0] * M
Zeros(M) == [i \in 1..M |-> F0_0]

(***************************************************************************)
(* build_out_edges: one dict per source, in insertion order of the keys,   *)
(* returned as lists of (v, w) items.                                      *)
(***************************************************************************)
HasKey(items, v) == \E j \in 1..Len(items) : items[j][1] = v

\* out_edges[u][v] = w: the last weight replaces the earlier ones
DictSet(items, v, w) ==
    IF HasKey(items, v)
    THEN [j \in 1..Len(items) |-> IF items[j][1] = v THEN <<v, w>> ELSE items[j]]
    ELSE Append(items, <<v, w>>)

\* out_edges[u][v] += w on a defaultdict(float)
DictAdd(items, v, w) ==
    IF HasKey(items, v)
    THEN [j \in 1..Len(items) |->
             IF items[j][1] = v THEN <<v, FAdd(items[j][2], w)>> ELSE items[j]]
    ELSE Append(items, <<v, FAdd(F0_0, w)>>)

RECURSIVE BuildFrom(_, _, _)
BuildFrom(oe, conns, k) ==
    IF k > Len(conns) THEN oe
    ELSE LET u == conns[k][1] - 1
             v == conns[k][2] - 1
             w == conns[k][3]
         IN  BuildFrom([oe EXCEPT ![u] = DictAdd(@, v, w)], conns, k + 1)

build_out_edges(M, conns) == BuildFrom([u \in 0..(M - 1) |-> << >>], conns, 1)

(***************************************************************************)
(* The two steppers.                                                       *)
(***************************************************************************)
\* if neurons[a-1]["state"]: any state other than 0 counts as active
IsTruthy(state) == state # 0

\* the test of both receive loops: neurons[a-1]["state"] == 1
IsActive(state) == state = 1

\* steps, phase 2: every edge in input order, sources read from ns
RECURSIVE ReceiveEdges(_, _, _, _)
ReceiveEdges(ns, conns, k, rcv) ==
    IF k > Len(conns) THEN rcv
    ELSE LET a == conns[k][1]
             b == conns[k][2]
             w == conns[k][3]
         IN  ReceiveEdges(ns, conns, k + 1,
                 IF IsActive(ns[a].state) THEN [rcv EXCEPT ![b] = FAdd(@, w)]
                 ELSE rcv)

\* step_fast, inner loop: for v, w in out_edges[u]: received[v] += w
RECURSIVE ReceiveItems(_, _, _)
ReceiveItems(items, j, rcv) ==
    IF j > Len(items) THEN rcv
    ELSE ReceiveItems(items, j + 1,
             [rcv EXCEPT ![items[j][1] + 1] = FAdd(@, items[j][2])])

\* step_fast, phase 1: every neuron u in index order, active ones only
RECURSIVE ReceiveActive(_, _, _, _)
ReceiveActive(ns, oe, u, rcv) ==
    IF u > Len(ns) - 1 THEN rcv
    ELSE ReceiveActive(ns, oe, u + 1,
             IF IsActive(ns[u + 1].state) THEN ReceiveItems(oe[u], 1, rcv)
             ELSE rcv)

\* received[i] > threshold: a strict test
FiresStrictly(r, threshold) == FLess(threshold, r)

\* the threshold test of both steppers: received[i] >= threshold
Fires(r, threshold) == FGe(r, threshold)

\* new_states with "else: new_states[i] = neurons[i]["state"]": a neuron
\* below its threshold keeps its state
NewStatesKeeping(ns, rcv) ==
    [i \in 1..Len(ns) |->
        IF Fires(rcv[i], ns[i].threshold) THEN 1 ELSE ns[i].state]

\* new_states of both steppers
NewStates(ns, rcv) ==
    [i \in 1..Len(ns) |-> IF Fires(rcv[i], ns[i].threshold) THEN 1 ELSE 0]

\* neurons[i] = {"id": i + 1, "state": new_states[i], "threshold": 0.0}: the
\* commit replaces the dict and loses the threshold
CommitReplacing(ns, new) ==
    [i \in 1..Len(ns) |-> [id |-> i, state |-> new[i], threshold |-> F0_0]]

\* neurons[i]["state"] = new_states[i] for every i
Commit(ns, new) ==
    [i \in 1..Len(ns) |-> [ns[i] EXCEPT !.state = new[i]]]

\* steps(neurons, connections): the heap after the call, and the accumulator
steps(h, ref, conns) ==
    LET ns  == h[ref]
        rcv == ReceiveEdges(ns, conns, 1, Zeros(Len(ns)))
    IN  [heap |-> [h EXCEPT ![ref] = Commit(ns, NewStates(ns, rcv))],
         received |-> rcv]

\* step_fast(neurons, out_edges)
step_fast(h, ref, oe) ==
    LET ns  == h[ref]
        rcv == ReceiveActive(ns, oe, 0, Zeros(Len(ns)))
    IN  [heap |-> [h EXCEPT ![ref] = Commit(ns, NewStates(ns, rcv))],
         received |-> rcv]

(***************************************************************************)
(* The two drivers, one iteration of the loop "for t in range(1, N + 1)".  *)
(***************************************************************************)
\* range(1, N + 2): one iteration too many
LoopRunsOnceMore(tt, n) == tt >= 1 /\ tt <= n + 1

\* range(1, N): one iteration too few
LoopRunsOnceLess(tt, n) == tt >= 1 /\ tt < n

\* the loop runs its body with loop variable tt
LoopRuns(tt, n) == tt >= 1 /\ tt <= n

\* debug_every is not None and t % debug_every == 0
Emits(every, tt) == every # None /\ tt % every[1] = 0

\* the STEP line printed after tick tt
Snapshot(h, ref, tt) == <<tt, States(h[ref])>>

\* a print that also clears the states it has shown
print_step_clearing(h, ref, tt, every, out) ==
    IF Emits(every, tt)
    THEN [heap |-> [h EXCEPT ![ref] = Commit(@, [i \in 1..Len(@) |-> 0])],
          stdout |-> Append(out, Snapshot(h, ref, tt))]
    ELSE [heap |-> h, stdout |-> out]

\* the guarded print of both loops: reads the states, writes stdout only
print_step(h, ref, tt, every, out) ==
    [heap |-> h,
     stdout |-> IF Emits(every, tt) THEN Append(out, Snapshot(h, ref, tt))
                ELSE out]

\* body of simulate_N's loop
simulate_N_body(h, ref, conns, tt, every, out) ==
    LET r == steps(h, ref, conns)
        p == print_step(r.heap, ref, tt, every, out)
    IN  [heap |-> p.heap, received |-> r.received, stdout |-> p.stdout]

\* body of simulate_fast's loop
simulate_fast_body(h, ref, oe, tt, every, out) ==
    LET r == step_fast(h, ref, oe)
        p == print_step(r.heap, ref, tt, every, out)
    IN  [heap |-> p.heap, received |-> r.received, stdout |-> p.stdout]

\* neurons_base = neurons: no copy, the same list under a second name
no_copy(h, ref, new) == [heap |-> h, ref |-> ref]

\* copy.deepcopy(neurons): a new list of new dicts at the free reference
deepcopy(h, ref, new) == [heap |-> [h EXCEPT ![new] = h[ref]], ref |-> new]

(***************************************************************************)
(* The cases.                                                              *)
(***************************************************************************)
StateValues == {0, 1}

SeqsUpTo(S, n) == UNION {[1..k -> S] : k \in 0..n}

Edges(M) == (1..M) \X (1..M) \X Weights

\* _read_stdin_case: the list of neuron dicts
MakeNeurons(s, X) ==
    [i \in 1..Len(s) |-> [id |-> i, state |-> s[i], threshold |-> X[i]]]

\* the state on return of _read_stdin_case, for the case (s, X, conns, n)
Parsed(s, X, conns, n, every) ==
    /\ heap = [r \in Refs |-> IF r = 1 THEN MakeNeurons(s, X) ELSE << >>]
    /\ neurons = 1
    /\ neurons_base = NoRef
    /\ neurons_fast = NoRef
    /\ connections = conns
    /\ N = n
    /\ debug_every = every
    /\ out_edges = << >>
    /\ t = 0
    /\ received = << >>
    /\ base_out = << >>
    /\ fast_out = << >>
    /\ match = FALSE
    /\ stdout = << >>
    /\ quiet = [r \in Refs |-> IF r = 1 THEN MakeNeurons(s, X) ELSE << >>]
    /\ pc = "copy"
    /\ phase = "idle"
    /\ idx = 0
    /\ new_states = << >>
    /\ tick_start = << >>

\* the cases: Ms neuron counts, Ts thresholds, at most maxEdges edges,
\* Ns step counts, Everys snapshot intervals
Cases(Ms, Ts, maxEdges, Ns, Everys) ==
    \E M \in Ms :
    \E s \in [1..M -> StateValues], X \in [1..M -> Ts] :
    \E conns \in SeqsUpTo(Edges(M), maxEdges), n \in Ns, every \in Everys :
        Parsed(s, X, conns, n, every)

Intervals == {None} \cup {<<k>> : k \in 1..MaxEvery}

\* verify_stdin passes debug_every=None to both drivers
Init == Cases(NeuronCounts, Thresholds, MaxEdges, 0..MaxN, {None})

\* the same harness, the drivers called with a snapshot interval
InitDebug ==
    Cases(NeuronCounts, Thresholds, MaxEdges, 0..MaxN, Intervals \ {None})

\* two neurons of threshold 0.4 and one more edge: three weights can meet
\* in one accumulator, in two different orders
InitWide == Cases({2}, {F0_4}, MaxEdges + 1, 0..MaxN, {None})

(***************************************************************************)
(* verify_stdin, with the debug_every of the case passed to both drivers.  *)
(***************************************************************************)
\* lines 63-64: the two deep copies
verify_copy ==
    /\ pc = "copy"
    /\ phase = "idle"
    /\ LET c1 == deepcopy(heap, neurons, 2)
           c2 == deepcopy(c1.heap, neurons, 3)
           q1 == deepcopy(quiet, neurons, 2)
           q2 == deepcopy(q1.heap, neurons, 3)
       IN  /\ heap' = c2.heap
           /\ neurons_base' = c1.ref
           /\ neurons_fast' = c2.ref
           /\ quiet' = q2.heap
    /\ t' = 0
    /\ pc' = "base"
    /\ UNCHANGED <<neurons, connections, N, debug_every, out_edges, received,
                   base_out, fast_out, match, stdout>>
    /\ UNCHANGED locals

\* simulate_N, lines 259-263: one iteration
simulate_N_iter ==
    /\ pc = "base"
    /\ phase = "idle"
    /\ LoopRuns(t + 1, N)
    /\ LET r == simulate_N_body(heap, neurons_base, connections, t + 1,
                                debug_every, stdout)
           q == simulate_N_body(quiet, neurons_base, connections, t + 1,
                                None, << >>)
       IN  /\ heap' = r.heap
           /\ received' = r.received
           /\ stdout' = r.stdout
           /\ quiet' = q.heap
    /\ t' = t + 1
    /\ UNCHANGED <<neurons, neurons_base, neurons_fast, connections, N,
                   debug_every, out_edges, base_out, fast_out, match, pc>>
    /\ UNCHANGED locals

\* simulate_N, line 265: the loop is over
simulate_N_return ==
    /\ pc = "base"
    /\ phase = "idle"
    /\ ~LoopRuns(t + 1, N)
    /\ base_out' = States(heap[neurons_base])
    /\ pc' = "fast_call"
    /\ UNCHANGED <<heap, neurons, neurons_base, neurons_fast, connections, N,
                   debug_every, out_edges, t, received, fast_out, match,
                   stdout, quiet>>
    /\ UNCHANGED locals

\* simulate_fast, lines 88-89
simulate_fast_call ==
    /\ pc = "fast_call"
    /\ phase = "idle"
    /\ out_edges' = build_out_edges(Len(heap[neurons_fast]), connections)
    /\ t' = 0
    /\ pc' = "fast"
    /\ UNCHANGED <<heap, neurons, neurons_base, neurons_fast, connections, N,
                   debug_every, received, base_out, fast_out, match, stdout,
                   quiet>>
    /\ UNCHANGED locals

\* simulate_fast, lines 91-94: one iteration
simulate_fast_iter ==
    /\ pc = "fast"
    /\ phase = "idle"
    /\ LoopRuns(t + 1, N)
    /\ LET r == simulate_fast_body(heap, neurons_fast, out_edges, t + 1,
                                   debug_every, stdout)
           q == simulate_fast_body(quiet, neurons_fast, out_edges, t + 1,
                                   None, << >>)
       IN  /\ heap' = r.heap
           /\ received' = r.received
           /\ stdout' = r.stdout
           /\ quiet' = q.heap
    /\ t' = t + 1
    /\ UNCHANGED <<neurons, neurons_base, neurons_fast, connections, N,
                   debug_every, out_edges, base_out, fast_out, match, pc>>
    /\ UNCHANGED locals

\* simulate_fast, line 96, and the MATCH line of verify_stdin
simulate_fast_return ==
    /\ pc = "fast"
    /\ phase = "idle"
    /\ ~LoopRuns(t + 1, N)
    /\ fast_out' = States(heap[neurons_fast])
    /\ match' = (base_out = States(heap[neurons_fast]))
    /\ pc' = "done"
    /\ UNCHANGED <<heap, neurons, neurons_base, neurons_fast, connections, N,
                   debug_every, out_edges, t, received, base_out, stdout,
                   quiet>>
    /\ UNCHANGED locals

Next ==
    \/ verify_copy
    \/ simulate_N_iter
    \/ simulate_N_return
    \/ simulate_fast_call
    \/ simulate_fast_iter
    \/ simulate_fast_return

Spec == Init /\ [][Next]_vars

SpecDebug == InitDebug /\ [][Next]_vars

SpecWide == InitWide /\ [][Next]_vars

(***************************************************************************)
(* The two steppers statement by statement: the receive loop, the          *)
(* threshold loop and the commit loop of a call run one iteration at a     *)
(* time.  The drivers around them are the ones above.                      *)
(***************************************************************************)
Running == IF pc = "base" THEN neurons_base ELSE neurons_fast

\* a threshold loop that stores its decision in the neuron at once
DecideInPlace(h, ref, new, i, rcv) ==
    LET d == IF Fires(rcv[i], h[ref][i].threshold) THEN 1 ELSE 0
    IN  [heap |-> [h EXCEPT ![ref][i].state = d],
         new_states |-> [new EXCEPT ![i] = d]]

\* lines 116-120 and 236-240, iteration i: the decision goes to new_states
Decide(h, ref, new, i, rcv) ==
    [heap |-> h,
     new_states |-> [new EXCEPT ![i] =
                        IF Fires(rcv[i], h[ref][i].threshold) THEN 1 ELSE 0]]

\* the loop "for t in range(1, N + 1)" enters its body and calls the stepper
\* (lines 217-220, 104-105)
tick_begin ==
    /\ pc \in {"base", "fast"}
    /\ phase = "idle"
    /\ LoopRuns(t + 1, N)
    /\ t' = t + 1
    /\ received' = Zeros(Len(heap[Running]))
    /\ tick_start' = States(heap[Running])
    /\ idx' = 1
    /\ phase' = "recv"
    /\ UNCHANGED <<heap, neurons, neurons_base, neurons_fast, connections, N,
                   debug_every, out_edges, base_out, fast_out, match, stdout,
                   quiet, pc, new_states>>

\* steps, lines 223-226: one edge
receive_edge ==
    /\ pc = "base"
    /\ phase = "recv"
    /\ idx <= Len(connections)
    /\ LET a == connections[idx][1]
           b == connections[idx][2]
           w == connections[idx][3]
       IN  received' = IF IsActive(heap[neurons_base][a].state)
                       THEN [received EXCEPT ![b] = FAdd(@, w)]
                       ELSE received
    /\ idx' = idx + 1
    /\ UNCHANGED <<heap, neurons, neurons_base, neurons_fast, connections, N,
                   debug_every, out_edges, t, base_out, fast_out, match,
                   stdout, quiet, pc, phase, new_states, tick_start>>

\* step_fast, lines 108-111: one neuron u = idx - 1 and its out-edges
receive_neuron ==
    /\ pc = "fast"
    /\ phase = "recv"
    /\ idx <= Len(heap[neurons_fast])
    /\ received' = IF IsActive(heap[neurons_fast][idx].state)
                   THEN ReceiveItems(out_edges[idx - 1], 1, received)
                   ELSE received
    /\ idx' = idx + 1
    /\ UNCHANGED <<heap, neurons, neurons_base, neurons_fast, connections, N,
                   debug_every, out_edges, t, base_out, fast_out, match,
                   stdout, quiet, pc, phase, new_states, tick_start>>

\* the receive loop is over: new_states = [0] * M (lines 115, 235)
receive_done ==
    /\ pc \in {"base", "fast"}
    /\ phase = "recv"
    /\ idx > (IF pc = "base" THEN Len(connections) ELSE Len(heap[Running]))
    /\ new_states' = [i \in 1..Len(heap[Running]) |-> 0]
    /\ idx' = 1
    /\ phase' = "threshold"
    /\ UNCHANGED <<heap, neurons, neurons_base, neurons_fast, connections, N,
                   debug_every, out_edges, t, received, base_out, fast_out,
                   match, stdout, quiet, pc, tick_start>>

\* lines 116-120, 236-240: one neuron
threshold_neuron ==
    /\ pc \in {"base", "fast"}
    /\ phase = "threshold"
    /\ idx <= Len(heap[Running])
    /\ LET d == Decide(heap, Running, new_states, idx, received)
       IN  /\ heap' = d.heap
           /\ new_states' = d.new_states
    /\ idx' = idx + 1
    /\ UNCHANGED <<neurons, neurons_base, neurons_fast, connections, N,
                   debug_every, out_edges, t, received, base_out, fast_out,
                   match, stdout, quiet, pc, phase, tick_start>>

\* the threshold loop is over
threshold_done ==
    /\ pc \in {"base", "fast"}
    /\ phase = "threshold"
    /\ idx > Len(heap[Running])
    /\ idx' = 1
    /\ phase' = "commit"
    /\ UNCHANGED <<heap, neurons, neurons_base, neurons_fast, connections, N,
                   debug_every, out_edges, t, received, base_out, fast_out,
                   match, stdout, quiet, pc, new_states, tick_start>>

\* for i in range(M - 1): the commit loop leaves the last neuron out
CommitRunsOneLess(i, M) == i >= 1 /\ i < M

\* the commit loop "for i in range(M)" runs its body with 1-based index i
CommitRuns(i, M) == i >= 1 /\ i <= M

\* lines 124-125, 243-244: one neuron
commit_neuron ==
    /\ pc \in {"base", "fast"}
    /\ phase = "commit"
    /\ CommitRuns(idx, Len(heap[Running]))
    /\ heap' = [heap EXCEPT ![Running][idx].state = new_states[idx]]
    /\ idx' = idx + 1
    /\ UNCHANGED <<neurons, neurons_base, neurons_fast, connections, N,
                   debug_every, out_edges, t, received, base_out, fast_out,
                   match, stdout, quiet, pc, phase, new_states, tick_start>>

\* the call returns; the driver prints if it has to (lines 93-94, 262-263)
tick_end ==
    /\ pc \in {"base", "fast"}
    /\ phase = "commit"
    /\ ~CommitRuns(idx, Len(heap[Running]))
    /\ stdout' = print_step(heap, Running, t, debug_every, stdout).stdout
    /\ phase' = "idle"
    /\ UNCHANGED <<heap, neurons, neurons_base, neurons_fast, connections, N,
                   debug_every, out_edges, t, received, base_out, fast_out,
                   match, quiet, pc, idx, new_states, tick_start>>

NextSteps ==
    \/ verify_copy
    \/ tick_begin
    \/ receive_edge
    \/ receive_neuron
    \/ receive_done
    \/ threshold_neuron
    \/ threshold_done
    \/ commit_neuron
    \/ tick_end
    \/ simulate_N_return
    \/ simulate_fast_call
    \/ simulate_fast_return

\* two neurons of threshold 0.5, at least one tick
InitSteps == Cases({2}, {F0_5}, MaxEdges, 1..MaxN, {None})

SpecSteps == InitSteps /\ [][NextSteps]_vars

\* the same cases, the drivers called with a snapshot interval
InitStepsDebug == Cases({2}, {F0_5}, MaxEdges, 1..MaxN, Intervals \ {None})

SpecStepsDebug == InitStepsDebug /\ [][NextSteps]_vars

(***************************************************************************)
(* The example of the module: nine neurons, thirteen edges, N = 100.       *)
(***************************************************************************)
DemoStates == <<1, 1, 1, 1, 0, 1, 1, 1, 0>>

DemoThresholds == <<F0_5, F0_1, F0_6, F0_5, F0_4, F0_8, F0_2, F0_2, F0_4>>

DemoConnections ==
    << <<4, 3, F0_8>>, <<9, 6, F0_6>>, <<8, 3, F0_4>>, <<7, 9, F0_6>>,
       <<4, 3, F1_0>>, <<2, 6, F0_8>>, <<1, 4, F0_8>>, <<2, 1, F0_5>>,
       <<4, 4, F0_1>>, <<5, 5, F0_8>>, <<3, 7, F0_5>>, <<9, 8, F0_3>>,
       <<8, 2, F0_6>> >>

DemoN == 100

\* the example, run by both drivers
InitDemo == Parsed(DemoStates, DemoThresholds, DemoConnections, DemoN, None)

SpecDemo == InitDemo /\ [][Next]_vars

(***************************************************************************)
(* C1.  The baseline run and the fast run of one case return the same      *)
(* vector.  Stated as the claim states it; the three-edge cases of         *)
(* SpecWide refute it: the two steppers add the same weights in different  *)
(* orders, and float addition is not associative.                          *)
(***************************************************************************)
\* C1: when both runs of a case are over, simulate_N and simulate_fast have
\* returned exactly the same vector
C1_SameFinalVector == pc = "done" => base_out = fast_out

(***************************************************************************)
(* Vocabulary of the claims.                                               *)
(***************************************************************************)
\* the parsed case: its neuron list and its state vector
Case == heap[neurons]

Initial == States(Case)

BaseReturned == pc \in {"fast_call", "fast", "done"}

FastReturned == pc = "done"

\* the list the running driver works on
Current == heap[IF pc = "base" THEN neurons_base ELSE neurons_fast]

Ticked == pc \in {"base", "fast"} /\ t >= 1

\* n applications of steps to the list at ref
RECURSIVE IterSteps(_, _, _, _)
IterSteps(h, ref, conns, n) ==
    IF n = 0 THEN h ELSE IterSteps(steps(h, ref, conns).heap, ref, conns, n - 1)

\* n applications of step_fast to the list at ref
RECURSIVE IterFast(_, _, _, _)
IterFast(h, ref, oe, n) ==
    IF n = 0 THEN h ELSE IterFast(step_fast(h, ref, oe).heap, ref, oe, n - 1)

(***************************************************************************)
(* C4.  N = 0.                                                             *)
(***************************************************************************)
\* C4: with N = 0 neither driver runs a tick: each returns the initial
\* state vector and leaves the list it was given as it was
C4_ZeroTicks ==
    N = 0 =>
        /\ t = 0
        /\ BaseReturned => base_out = Initial /\ heap[neurons_base] = Case
        /\ FastReturned => fast_out = Initial /\ heap[neurons_fast] = Case

\* both runs of a zero-tick case are over, and one tick would have changed
\* the vector
C4_Witness ==
    /\ N = 0
    /\ pc = "done"
    /\ connections # << >>
    /\ States(steps(heap, neurons, connections).heap[neurons]) # Initial

(***************************************************************************)
(* C5.  The threshold rule.                                                *)
(***************************************************************************)
\* C5: after every tick of either stepper, neuron i is 1 if the signal it
\* received in that tick is not below its threshold and 0 if it is; and the
\* one-neuron case of state 0, threshold 0.0, no edge, N = 1 returns [1]
C5_ThresholdRule ==
    /\ Ticked =>
          \A i \in 1..Len(Current) :
              Current[i].state =
                  IF FLess(received[i], Current[i].threshold) THEN 0 ELSE 1
    /\ ( /\ pc = "done"
         /\ Initial = <<0>>
         /\ Case[1].threshold = F0_0
         /\ connections = << >>
         /\ N = 1 ) => base_out = <<1>> /\ fast_out = <<1>>

\* a tick of the fast stepper in which a neuron received exactly its
\* threshold 0.5 (0.6 + -0.1) and is now active
C5_Witness ==
    /\ pc = "fast"
    /\ t >= 1
    /\ \E i \in 1..Len(Current) :
          /\ Current[i].threshold = F0_5
          /\ received[i] = F0_5
          /\ Current[i].state = 1

(***************************************************************************)
(* C9.  Snapshots.                                                         *)
(***************************************************************************)
\* C9: with a snapshot interval each driver runs its N ticks and returns
\* the vector the same run returns with debug_every = None
C9_SnapshotsChangeNothing ==
    /\ debug_every # None
    /\ BaseReturned =>
          base_out = States(quiet[neurons_base]) /\ Len(base_out) = Len(Case)
    /\ FastReturned =>
          fast_out = States(quiet[neurons_fast]) /\ Len(fast_out) = Len(Case)
    /\ pc \in {"fast_call", "done"} => t = N

\* both runs are over, the STEP lines of tick 2 (and not of tick 1) were
\* printed by both, and the vector printed differs from the initial one
C9_Witness ==
    /\ pc = "done"
    /\ debug_every = <<2>>
    /\ Len(stdout) = 2
    /\ stdout[1][1] = 2
    /\ stdout[1][2] # Initial

(***************************************************************************)
(* C10.  The drivers.                                                      *)
(***************************************************************************)
\* C10: each driver's loop counts t up by one from 0 and never past N, it
\* returns when t = N, and what it returns is the vector N applications of
\* its stepper make of the initial one
C10_NTicks ==
    /\ [](pc \in {"base", "fast"} => t \in 0..N)
    /\ [][pc' = pc /\ pc \in {"base", "fast"} => t' = t + 1]_vars
    /\ [](BaseReturned /\ pc # "fast" =>
             /\ t = N
             /\ base_out =
                  States(IterSteps(heap, neurons, connections, N)[neurons]))
    /\ [](FastReturned =>
             /\ t = N
             /\ fast_out =
                  States(IterFast(heap, neurons, out_edges, N)[neurons]))

\* both runs of a two-tick case are over and the three vectors of the
\* trajectory (initial, after one tick, after two) are pairwise different
C10_Witness ==
    /\ pc = "done"
    /\ N = 2
    /\ base_out # Initial
    /\ States(steps(heap, neurons, connections).heap[neurons]) # Initial
    /\ States(steps(heap, neurons, connections).heap[neurons]) # base_out

(***************************************************************************)
(* Sums.  "The sum of the weights" of a list of edges is the float sum in  *)
(* list order, 0.0 + w1 + w2 + ..., the sum steps accumulates.             *)
(***************************************************************************)
RECURSIVE FSumFrom(_, _, _)
FSumFrom(ws, k, acc) ==
    IF k > Len(ws) THEN acc ELSE FSumFrom(ws, k + 1, FAdd(acc, ws[k][3]))

FSum(ws) == FSumFrom(ws, 1, F0_0)

\* the edges from a to b, in list order
EdgesBetween(conns, a, b) ==
    SelectSeq(conns, LAMBDA e : e[1] = a /\ e[2] = b)

\* the edges into b whose source is active in ns, in list order
ActiveEdgesInto(conns, ns, b) ==
    SelectSeq(conns, LAMBDA e : e[2] = b /\ ns[e[1]].state = 1)

(***************************************************************************)
(* C7.  build_out_edges.                                                   *)
(***************************************************************************)
\* C7: out_edges is indexed 0..M-1; under each source u a destination v
\* occurs at most once, occurs exactly if the list has an edge (u+1, v+1, _),
\* and carries the sum of the weights of these edges
C7_Aggregated ==
    pc \in {"fast", "done"} =>
        LET M == Len(Case)
        IN  /\ DOMAIN out_edges = 0..(M - 1)
            /\ \A u \in 0..(M - 1) :
                  LET items == out_edges[u]
                  IN  /\ \A j, k \in 1..Len(items) :
                            items[j][1] = items[k][1] => j = k
                      /\ \A j \in 1..Len(items) : items[j][1] \in 0..(M - 1)
                      /\ \A v \in 0..(M - 1) :
                            LET es == EdgesBetween(connections, u + 1, v + 1)
                            IN  /\ HasKey(items, v) <=> es # << >>
                                /\ \A j \in 1..Len(items) :
                                      items[j][1] = v => items[j][2] = FSum(es)

\* a source with two destinations, one of them reached by two edges
C7_Witness ==
    /\ pc = "fast"
    /\ Len(connections) = 3
    /\ \E u \in DOMAIN out_edges :
          /\ Len(out_edges[u]) = 2
          /\ out_edges[u][1][2] \notin Weights

(***************************************************************************)
(* C6.  Two parallel edges and their merge.                                *)
(***************************************************************************)
\* the list with edge i replaced by (a, b, w_i + w_j) and edge j removed
Merged(conns, i, j) ==
    LET m == <<conns[i][1], conns[i][2], FAdd(conns[i][3], conns[j][3])>>
    IN  [k \in 1..(Len(conns) - 1) |->
            IF k = i THEN m ELSE IF k < j THEN conns[k] ELSE conns[k + 1]]

\* what simulate_fast returns for the case with the edge list conns
FastResult(conns) ==
    States(IterFast(heap, neurons, build_out_edges(Len(Case), conns), N)
               [neurons])

\* C6: simulate_fast returns the same vector for the list of the case and
\* for the list with any two of its parallel edges merged
C6_MergeAnyTwo ==
    pc = "done" =>
        \A i, j \in 1..Len(connections) :
            ( /\ i < j
              /\ connections[i][1] = connections[j][1]
              /\ connections[i][2] = connections[j][2] )
            => FastResult(Merged(connections, i, j)) = fast_out

(***************************************************************************)
(* C8.  The received signal.                                               *)
(***************************************************************************)
\* the list the last tick of the running driver started from
BeforeTick ==
    IF pc = "base"
    THEN IterSteps(heap, neurons, connections, t - 1)[neurons]
    ELSE IterFast(heap, neurons, out_edges, t - 1)[neurons]

\* C8: in every tick of either stepper the signal a neuron received is the
\* sum of the weights of the edges into it whose source was active
C8_ReceivedIsActiveSum ==
    Ticked =>
        \A b \in 1..Len(Current) :
            received[b] = FSum(ActiveEdgesInto(connections, BeforeTick, b))

(***************************************************************************)
(* C2.  The example.                                                       *)
(***************************************************************************)
\* the vector one more tick of the running stepper makes of the current one
AfterOneMore ==
    IF pc = "base"
    THEN States(steps(heap, neurons_base, connections).heap[neurons_base])
    ELSE States(step_fast(heap, neurons_fast, out_edges).heap[neurons_fast])

\* the vector n more ticks of the running stepper make of the current one
AfterMore(n) ==
    IF pc = "base"
    THEN States(IterSteps(heap, neurons_base, connections, n)[neurons_base])
    ELSE States(IterFast(heap, neurons_fast, out_edges, n)[neurons_fast])

\* C2 as stated: the example has stopped changing before tick 100, so the
\* vector after tick 100 is one the next tick leaves as it is
C2_StableBefore100 ==
    (pc \in {"base", "fast"} /\ t = DemoN) => AfterOneMore = States(Current)

\* C2, amended: the example never stops changing within the 100 ticks; under
\* both steppers every vector from tick 1 on returns after exactly 7 ticks
\* and after no fewer, and the two drivers return the same vector
C2_Period7 ==
    /\ Ticked =>
          /\ AfterMore(7) = States(Current)
          /\ \A n \in 1..6 : AfterMore(n) # States(Current)
    /\ pc = "done" => base_out = fast_out

\* both runs of the example are over, after 100 ticks each
C2_Witness ==
    /\ pc = "done"
    /\ N = DemoN
    /\ t = DemoN
    /\ Len(fast_out) = 9
    /\ fast_out # Initial

(***************************************************************************)
(* C3.  Synchronous update, on the steppers run statement by statement.    *)
(***************************************************************************)
\* the heap with the states of the list at ref set to the vector v
WithStates(h, ref, v) == [h EXCEPT ![ref] = Commit(@, v)]

\* what one whole tick makes of the vector the running call started from
WholeTick ==
    LET h0 == WithStates(heap, Running, tick_start)
    IN  IF pc = "base"
        THEN States(steps(h0, Running, connections).heap[Running])
        ELSE States(step_fast(h0, Running, out_edges).heap[Running])

\* C3: while a call of either stepper adds up signals or decides thresholds
\* the state vector is still the one the call started from; the decisions
\* it then commits are those the start vector alone determines; and the
\* commit loop is the only writer, neuron by neuron
C3_Synchronous ==
    /\ phase \in {"recv", "threshold"} => States(heap[Running]) = tick_start
    /\ phase = "commit" =>
          /\ new_states = WholeTick
          /\ \A i \in 1..Len(new_states) :
                heap[Running][i].state =
                    IF i < idx THEN new_states[i] ELSE tick_start[i]
    /\ (phase = "idle" /\ pc \in {"base", "fast"} /\ t >= 1) =>
          States(heap[Running]) = WholeTick

\* the fast stepper is deciding the second neuron, has decided otherwise
\* for the first than its state says, and that state is still the old one
C3_Witness ==
    /\ pc = "fast"
    /\ phase = "threshold"
    /\ idx = 2
    /\ new_states[1] # heap[neurons_fast][1].state
    /\ heap[neurons_fast][2].state = 1
    /\ connections # << >>

(***************************************************************************)
(* C11.  The two copies of verify_stdin.                                   *)
(***************************************************************************)
\* C11: no tick of the baseline run changes the list the fast run will work
\* on, no tick of the fast run changes the baseline's list, no step at all
\* changes the parsed case, the fast run starts from the parsed case, and
\* the MATCH flag is true exactly if the two returned vectors are equal
C11_IndependentCopies ==
    /\ [][pc = "base" => heap'[neurons_fast'] = heap[neurons_fast]]_vars
    /\ [][pc = "fast" => heap'[neurons_base'] = heap[neurons_base]]_vars
    /\ [][heap'[neurons'] = heap[neurons]]_vars
    /\ [](pc \in {"base", "fast_call"} \/ (pc = "fast" /\ t = 0) =>
             heap[neurons_fast] = Case)
    /\ [](pc = "done" => (match <=> base_out = fast_out))

\* both runs are over, the baseline has changed its copy, the fast run would
\* have returned another vector had it started from the baseline's result,
\* and MATCH is false
C11_Witness ==
    /\ pc = "done"
    /\ N >= 1
    /\ base_out # Initial
    /\ States(IterFast(heap, neurons_base, out_edges, N)[neurons_base])
           # fast_out
    /\ ~match
    /\ base_out # fast_out

(***************************************************************************)
(* C12.  A neuron's own state.  The cases are those around the scenario    *)
(* of two neurons and edges of weight 0.5.                                 *)
(***************************************************************************)
ScenarioWeights == {F0_5, FNeg0_1}

InitScenario ==
    \E s \in [1..2 -> StateValues], X \in [1..2 -> Thresholds] :
    \E conns \in SeqsUpTo((1..2) \X (1..2) \X ScenarioWeights, MaxEdges) :
    \E n \in 0..MaxN :
        Parsed(s, X, conns, n, None)

SpecScenario == InitScenario /\ [][Next]_vars

\* the vector one tick of the running stepper makes of the state vector v
TickOf(v) ==
    LET h0 == WithStates(heap, Running, v)
    IN  IF pc = "base"
        THEN States(steps(h0, Running, connections).heap[Running])
        ELSE States(step_fast(h0, Running, out_edges).heap[Running])

\* v has the states of ns at every source of an edge into neuron i
SameSourcesInto(conns, ns, v, i) ==
    \A k \in 1..Len(conns) :
        conns[k][2] = i => v[conns[k][1]] = ns[conns[k][1]].state

\* C12: after a tick of either stepper the state of neuron i is the one the
\* tick gives it from any vector with the same states at the sources of the
\* edges into i; a neuron with no edge from an active source and a threshold
\* above 0 is 0, whatever it was; and the case [1,0], thresholds 0.5, edge
\* (1,2,0.5), N = 1 returns [0,1] from both drivers
C12_OwnStateIrrelevant ==
    /\ Ticked =>
          \A i \in 1..Len(Current) :
              /\ \A v \in [1..Len(Current) -> StateValues] :
                    SameSourcesInto(connections, BeforeTick, v, i)
                        => TickOf(v)[i] = Current[i].state
              /\ ( /\ ActiveEdgesInto(connections, BeforeTick, i) = << >>
                   /\ FLess(F0_0, Current[i].threshold) )
                 => Current[i].state = 0
    /\ ( /\ pc = "done"
         /\ Initial = <<1, 0>>
         /\ Case[1].threshold = F0_5
         /\ Case[2].threshold = F0_5
         /\ connections = << <<1, 2, F0_5>> >>
         /\ N = 1 ) => base_out = <<0, 1>> /\ fast_out = <<0, 1>>

\* both runs of the scenario are over: neuron 1 was active, received
\* nothing and is 0, neuron 2 received exactly its threshold and is 1
C12_Witness ==
    /\ pc = "done"
    /\ Initial = <<1, 0>>
    /\ Case[1].threshold = F0_5
    /\ Case[2].threshold = F0_5
    /\ connections = << <<1, 2, F0_5>> >>
    /\ N = 1
    /\ received = <<F0_0, F0_5>>
    /\ fast_out = <<0, 1>>

(***************************************************************************)
(* C13.  What can be observed: the STEP lines and the returned vectors,    *)
(* on the steppers run statement by statement.  The baseline prints its    *)
(* N \div k lines first, the fast run its own after them.                  *)
(***************************************************************************)
\* the vector after tt whole ticks of the stepper of the run that printed
\* line j of stdout
AfterWholeTicks(j, tt) ==
    IF j <= N \div debug_every[1]
    THEN States(IterSteps(heap, neurons, connections, tt)[neurons])
    ELSE States(IterFast(heap, neurons, out_edges, tt)[neurons])

\* the tick after which line j of stdout is printed
TickOfLine(j) ==
    LET k  == debug_every[1]
        nb == N \div k
    IN  IF j <= nb THEN j * k ELSE (j - nb) * k

\* C13: every STEP line shows a multiple t of debug_every and the vector
\* after exactly t whole ticks of the initial vector, each driver prints one
\* line per multiple up to N, and each driver returns the vector after
\* exactly N whole ticks
C13_CommittedOnly ==
    /\ \A j \in 1..Len(stdout) :
          stdout[j] = <<TickOfLine(j), AfterWholeTicks(j, TickOfLine(j))>>
    /\ BaseReturned =>
          /\ Len(stdout) >= N \div debug_every[1]
          /\ base_out = States(IterSteps(heap, neurons, connections, N)[neurons])
    /\ FastReturned =>
          /\ Len(stdout) = 2 * (N \div debug_every[1])
          /\ fast_out = States(IterFast(heap, neurons, out_edges, N)[neurons])

\* both runs are over and the fast run has printed a line after a tick
\* that changed both neurons: a vector half of that tick and half of the
\* one before would be neither of the two
C13_Witness ==
    /\ pc = "done"
    /\ \E j \in 1..Len(stdout) :
          /\ j > N \div debug_every[1]
          /\ \A i \in 1..Len(Case) :
                stdout[j][2][i] # AfterWholeTicks(j, TickOfLine(j) - 1)[i]

(***************************************************************************)
(* C14.  What a tick leaves alone.                                         *)
(***************************************************************************)
\* the list after differs from the list before in state fields at most
OnlyStatesDiffer(before, after) ==
    /\ Len(after) = Len(before)
    /\ \A i \in 1..Len(before) :
          after[i] = [before[i] EXCEPT !.state = after[i].state]

\* a step that writes state fields only
TickKeeps ==
    /\ \A r \in {neurons, neurons_base, neurons_fast} :
          OnlyStatesDiffer(heap[r], heap'[r])
    /\ connections' = connections
    /\ out_edges' = out_edges

\* C14: a tick of either stepper leaves the number of neurons, every id and
\* threshold, the edge list and out_edges as they were; so at any time the
\* running list has the ids and thresholds of the parsed case, and out_edges
\* is what build_out_edges made of the edge list
C14_TicksWriteStatesOnly ==
    /\ [][pc' = pc /\ pc \in {"base", "fast"} => TickKeeps]_vars
    /\ [](pc \in {"base", "fast", "done"} =>
             /\ OnlyStatesDiffer(Case, heap[neurons_base])
             /\ OnlyStatesDiffer(Case, heap[neurons_fast])
             /\ \A i \in 1..Len(Case) : Case[i].id = i)
    /\ [](pc \in {"fast", "done"} =>
             out_edges = build_out_edges(Len(Case), connections))

\* both runs of two ticks are over, both have changed the states, the two
\* neurons have different thresholds and out_edges holds two edges
C14_Witness ==
    /\ pc = "done"
    /\ N = 2
    /\ base_out # Initial
    /\ fast_out # Initial
    /\ Len(Case) = 2
    /\ Case[1].threshold # Case[2].threshold
    /\ heap[neurons_fast][2].threshold = F0_5
    /\ Len(connections) = 2
    /\ \E u \in DOMAIN out_edges : out_edges[u] # << >>

(***************************************************************************)
(* C15.  Initial states other than 0 and 1.  int() accepts any integer;    *)
(* the cases have two neurons of threshold 0.5 and initial states from     *)
(* -1, 0, 1 and 2.                                                         *)
(***************************************************************************)
AnyStateValues == {0 - 1, 0, 1, 2}

InitAnyState ==
    \E s \in [1..2 -> AnyStateValues], X \in [1..2 -> {F0_5}] :
    \E conns \in SeqsUpTo(Edges(2), MaxEdges), n \in 0..MaxN :
        Parsed(s, X, conns, n, None)

SpecAnyState == InitAnyState /\ [][Next]_vars

\* the vector with every value other than 1 replaced by 0
AsInactive(v) == [i \in 1..Len(v) |-> IF v[i] = 1 THEN 1 ELSE 0]

\* the vector n ticks of the running stepper make of the initial vector
\* with every value other than 1 replaced by 0
FromInactive(n) ==
    LET h0 == WithStates(heap, neurons, AsInactive(Initial))
    IN  IF pc = "base"
        THEN States(IterSteps(h0, neurons, connections, n)[neurons])
        ELSE States(IterFast(h0, neurons, out_edges, n)[neurons])

\* C15: after one tick or more of either stepper every state is 0 or 1 and
\* the vector is the one the same ticks make of the initial vector with its
\* values other than 1 replaced by 0; with N >= 1 both returned vectors hold
\* 0 and 1 only
C15_StatesAreBits ==
    /\ Ticked =>
          /\ \A i \in 1..Len(Current) : Current[i].state \in {0, 1}
          /\ States(Current) = FromInactive(t)
    /\ (BaseReturned /\ N >= 1) =>
          \A i \in 1..Len(base_out) : base_out[i] \in {0, 1}
    /\ (FastReturned /\ N >= 1) =>
          \A i \in 1..Len(fast_out) : fast_out[i] \in {0, 1}

\* both runs of the case [2,-1] with the edge (1,2,0.6) are over: the edge
\* would have made neuron 2 fire had neuron 1 counted as active
C15_Witness ==
    /\ pc = "done"
    /\ N = 1
    /\ Initial = <<2, 0 - 1>>
    /\ connections = << <<1, 2, F0_6>> >>
    /\ base_out = <<0, 0>>
    /\ fast_out = <<0, 0>>

====
